---- MODULE Spec2Model ----
(***************************************************************************)
(* ML analytics app of groupbuy-bot (core/ml): the train and predict       *)
(* endpoints of views.py, the training orchestration of plexe_service.py,  *)
(* the request serializers and the heuristic predictor.                    *)
(*                                                                         *)
(* Conventions                                                             *)
(*  - Python None / an absent optional value is the empty tuple None, a    *)
(*    present value v is <<v>>.                                            *)
(*  - A dict is a TLA+ function whose DOMAIN is the key set.               *)
(*  - Money amounts and counters are integers.  A float result is kept as  *)
(*    the exact decimal [n, scale] standing for n / scale.                 *)
(*  - The relational store is autocommit (Django's default): every         *)
(*    create()/save() is persisted at once; the store itself does not      *)
(*    fail.                                                                *)
(***************************************************************************)
EXTENDS Integers, Sequences, FiniteSets, TLC

VARIABLES
    PLEXE_AVAILABLE,  \* plexe_service.PLEXE_AVAILABLE, set once at import
    procurements,     \* table of the procurement collaborator, pk = index
    ml_models,        \* table ml_models, pk = index
    predictions,      \* table procurement_predictions, pk = index
    files,            \* file system: path |-> content of the dataset files
    dirs,             \* file system: existing directories
    plexe_calls,      \* invocations of plexe.main.main made so far
    req,              \* train requests: locals and position of each handler
    served,           \* number of predict / list requests answered so far
    last,             \* response of the last predict / list request
    hcall,            \* direct call of a pure function: its arguments
    hresult           \* ... and its return value

vars == <<PLEXE_AVAILABLE, procurements, ml_models, predictions, files, dirs,
          plexe_calls, req, served, last, hcall, hresult>>

-----------------------------------------------------------------------------
(* Bounds of the model *)

MaxRequests == 2       \* HTTP requests received in one behaviour
MaxProcurements == 2   \* rows of the procurement table

-----------------------------------------------------------------------------
(* Python values *)

None == <<>>
Some(v) == <<v>>
EmptyDict == [k \in {} |-> k]
Get(d, k, default) == IF k \in DOMAIN d THEN d[k] ELSE default
Max(a, b) == IF a >= b THEN a ELSE b
Min(a, b) == IF a <= b THEN a ELSE b

\* n / scale, an exact decimal
Dec(n, scale) == [n |-> n, scale |-> scale]

\* round(num / den, ndigits) in units of 10^-ndigits (unit = 10^ndigits):
\* nearest integer to num * unit / den, ties to even (Python 3 round()).
Round(num, den, unit) ==
    LET q == (num * unit) \div den
        r == (num * unit) % den
    IN  IF 2 * r < den THEN q
        ELSE IF 2 * r > den THEN q + 1
        ELSE IF q % 2 = 0 THEN q ELSE q + 1

-----------------------------------------------------------------------------
(* models.py *)

SUCCESS_PREDICTION == "success_prediction"
DEMAND_FORECAST == "demand_forecast"
PRICE_OPTIMIZATION == "price_optimization"
ModelTypeChoices == {SUCCESS_PREDICTION, DEMAND_FORECAST, PRICE_OPTIMIZATION}

TRAINING == "training"
READY == "ready"
FAILED == "failed"

\* A row of ml_models as MLModel.objects.create(...) of train makes it:
\* the fields not given take their defaults.
MLModel(name, model_type, status, intent) ==
    [name |-> name, model_type |-> model_type, status |-> status,
     intent |-> intent, performance |-> None, artifact_path |-> "",
     training_metadata |-> EmptyDict]

\* Variant of ProcurementPrediction: the confidence is not stored.
ProcurementPrediction_NoConfidence(procurement, prediction_type, predicted_value, confidence, input_features) ==
    [procurement |-> procurement, ml_model |-> None,
     prediction_type |-> prediction_type,
     predicted_value |-> predicted_value, confidence |-> None,
     input_features |-> input_features]

\* A row of procurement_predictions; ml_model is not given by predict and
\* takes its default, NULL.
ProcurementPrediction(procurement, prediction_type, predicted_value, confidence, input_features) ==
    [procurement |-> procurement, ml_model |-> None,
     prediction_type |-> prediction_type,
     predicted_value |-> predicted_value, confidence |-> confidence,
     input_features |-> input_features]

-----------------------------------------------------------------------------
(* The procurement collaborator (procurements.models.Procurement).         *)
(* A row: status, category (None or the category's name), city (None or a  *)
(* string, possibly empty), target_amount, current_amount, price_per_unit  *)
(* (None or a number), participant_count, created_at and deadline (in      *)
(* hours since an epoch) and the derived progress percentage.              *)

HoursPerDay == 24

\* The procurements the collaborator stores, in this order (then again
\* from the first): one cancelled without category, city and price whose
\* deadline precedes its creation, one completed, one active.
ProcurementFixtures ==
    << [status |-> "cancelled", category |-> None, city |-> Some(""),
        target_amount |-> 5000, current_amount |-> 0,
        price_per_unit |-> None, participant_count |-> 0,
        created_at |-> 48, deadline |-> 47, progress |-> 0],
       [status |-> "completed", category |-> Some("Electronics"),
        city |-> Some("Moscow"), target_amount |-> 10000,
        current_amount |-> 10000, price_per_unit |-> Some(500),
        participant_count |-> 12, created_at |-> 0, deadline |-> 720,
        progress |-> 100],
       [status |-> "active", category |-> Some("Food"), city |-> None,
        target_amount |-> 8000, current_amount |-> 2400,
        price_per_unit |-> Some(0), participant_count |-> 6,
        created_at |-> 0, deadline |-> 375, progress |-> 30] >>

\* Procurement.objects.filter(status__in=statuses): (pk, row) in pk order
Filter(table, statuses) ==
    LET Keep(i) == table[i].status \in statuses
        F[i \in 0..Len(table)] ==
            IF i = 0 THEN <<>>
            ELSE IF Keep(i) THEN Append(F[i - 1], table[i]) ELSE F[i - 1]
    IN  F[Len(table)]

\* Variant of TimedeltaDays: the difference is not reduced to whole days
\* (total hours in place of .days).
TimedeltaDays_Hours(hours) == hours

\* timedelta.days of a difference given in hours: floor division, so a
\* negative difference of less than a day is -1 day.
TimedeltaDays(hours) == hours \div HoursPerDay

\* Variant of TruthyStr: only None is replaced ("is not None" in place of
\* "or").
TruthyStr_NotNone(o) == o # None

\* Python truthiness of an optional string / number
TruthyStr(o) == o # None /\ o[1] # ""
TruthyNum(o) == o # None /\ o[1] # 0

-----------------------------------------------------------------------------
(* plexe_service.py: feature extraction and dataset builders *)

extract_features(procurement) ==
    [category |-> IF procurement.category # None
                  THEN procurement.category[1] ELSE "unknown",
     city |-> IF TruthyStr(procurement.city)
              THEN procurement.city[1] ELSE "unknown",
     target_amount |-> procurement.target_amount,
     participant_count |-> procurement.participant_count,
     days_active |-> Max(0, TimedeltaDays(procurement.deadline
                                          - procurement.created_at)),
     price_per_unit |-> IF TruthyNum(procurement.price_per_unit)
                        THEN procurement.price_per_unit[1] ELSE 0,
     current_amount |-> procurement.current_amount,
     progress |-> procurement.progress]

success_row(p) ==
    [category |-> IF p.category # None THEN p.category[1] ELSE "unknown",
     city |-> IF TruthyStr(p.city) THEN p.city[1] ELSE "unknown",
     target_amount |-> p.target_amount,
     participant_count |-> p.participant_count,
     days_active |-> Max(0, TimedeltaDays(p.deadline - p.created_at)),
     price_per_unit |-> IF TruthyNum(p.price_per_unit)
                        THEN p.price_per_unit[1] ELSE 0,
     successful |-> IF p.status = "completed" THEN 1 ELSE 0]

\* Variant of _build_success_dataset: the builder keeps only the records
\* in a terminal state.
_build_success_dataset_TerminalOnly(procurements_qs) ==
    LET F[i \in 0..Len(procurements_qs)] ==
            IF i = 0 THEN <<>>
            ELSE IF procurements_qs[i].status \in {"completed", "cancelled"}
            THEN Append(F[i - 1], success_row(procurements_qs[i]))
            ELSE F[i - 1]
    IN  F[Len(procurements_qs)]

\* rows.append(...) for p in procurements_qs; pd.DataFrame(rows)
_build_success_dataset(procurements_qs) ==
    [i \in 1..Len(procurements_qs) |-> success_row(procurements_qs[i])]

demand_row(p) ==
    [category |-> IF p.category # None THEN p.category[1] ELSE "unknown",
     city |-> IF TruthyStr(p.city) THEN p.city[1] ELSE "unknown",
     target_amount |-> p.target_amount,
     price_per_unit |-> IF TruthyNum(p.price_per_unit)
                        THEN p.price_per_unit[1] ELSE 0,
     participant_count |-> p.participant_count]

_build_demand_dataset(procurements_qs) ==
    [i \in 1..Len(procurements_qs) |-> demand_row(procurements_qs[i])]

-----------------------------------------------------------------------------
(* views.py: the heuristic predictor *)

\* int(x) of the quotient num / den: truncation towards zero
PyInt(num, den) ==
    IF num >= 0 THEN num \div den ELSE 0 - ((0 - num) \div den)

\* "features.get('price_per_unit', 0) or 1"
PriceOrOne(features) ==
    LET price == Get(features, "price_per_unit", 0)
    IN  IF price = 0 THEN 1 ELSE price

\* Variant of success_score: the participant term is not capped at 1.
success_score_NoParticipantCap(features) ==
    LET progress == Get(features, "progress", 0)
        days_active == Max(1, Get(features, "days_active", 1))
        participant_count == Get(features, "participant_count", 0)
    IN  180 * progress
        + 900 * participant_count
        + Min(3000, 100 * days_active)

\* The success branch.  With integer inputs the score is a multiple of
\* 1/30000: 0.6 * progress / 100 = 180 progress / 30000,
\* 0.3 * min(1, c / 10) = min(9000, 900 c) / 30000,
\* 0.1 * min(1, d / 30) = min(3000, 100 d) / 30000.
success_score(features) ==
    LET progress == Get(features, "progress", 0)
        days_active == Max(1, Get(features, "days_active", 1))
        participant_count == Get(features, "participant_count", 0)
    IN  180 * progress
        + Min(9000, 900 * participant_count)
        + Min(3000, 100 * days_active)

\* Variant of Clamp: the score is not clamped.
Clamp_None(score) == score

\* min(1.0, score), the score in units of 1/30000
Clamp(score) == Min(30000, score)

\* Variant of estimated_participants: without the lower bound of 1.
estimated_participants_NoFloor(target, price) == PyInt(target, price * 5)

\* max(1, int(estimated_units / 5)), estimated_units = target / price
estimated_participants(target, price) == Max(1, PyInt(target, price * 5))

\* (predicted_value, confidence)
_heuristic_predict(prediction_type, features) ==
    IF prediction_type = SUCCESS_PREDICTION
    THEN <<Dec(Round(Clamp(success_score(features)), 30000, 10000), 10000),
           Dec(5, 10)>>
    ELSE IF prediction_type = DEMAND_FORECAST
    THEN LET target == Get(features, "target_amount", 1000)
             price == PriceOrOne(features)
         IN  <<Dec(estimated_participants(target, price), 1), Dec(4, 10)>>
    ELSE LET target == Get(features, "target_amount", 1000)
             participants == Max(1, Get(features, "participant_count", 1))
         IN  <<Dec(Round(target, participants, 100), 100), Dec(35, 100)>>

-----------------------------------------------------------------------------
(* serializers.py *)

MinIterations == 1
MaxIterations == 20
DefaultIterations == 3

\* Request bodies of POST /api/ml/models/train/
TrainBodies ==
    [model_type : ModelTypeChoices \cup {"nonexistent_type"},
     max_iterations : {None, Some(0), Some(1), Some(20), Some(21)},
     work_dir : {"", "workdir"}]

\* TrainModelSerializer(data).errors: the fields that fail validation
TrainModelSerializer_errors(data) ==
    (IF data.model_type \in ModelTypeChoices THEN {} ELSE {"model_type"})
    \cup
    (IF \/ data.max_iterations = None
        \/ /\ data.max_iterations[1] >= MinIterations
           /\ data.max_iterations[1] <= MaxIterations
     THEN {} ELSE {"max_iterations"})

TrainModelSerializer_is_valid(data) == TrainModelSerializer_errors(data) = {}

TrainModelSerializer_validated_data(data) ==
    [model_type |-> data.model_type,
     max_iterations |-> IF data.max_iterations = None
                        THEN DefaultIterations ELSE data.max_iterations[1],
     work_dir |-> data.work_dir]

\* Request bodies of POST /api/ml/predictions/predict/
PredictBodies ==
    [procurement_id : {None} \cup {Some(i) : i \in 1..(MaxProcurements + 1)},
     prediction_type : {None} \cup {Some(t) : t \in ModelTypeChoices
                                                 \cup {"nonexistent_type"}}]

PredictSerializer_errors(data) ==
    (IF data.procurement_id # None THEN {} ELSE {"procurement_id"})
    \cup
    (IF \/ data.prediction_type = None
        \/ data.prediction_type[1] \in ModelTypeChoices
     THEN {} ELSE {"prediction_type"})

PredictSerializer_is_valid(data) == PredictSerializer_errors(data) = {}

PredictSerializer_validated_data(data) ==
    [procurement_id |-> data.procurement_id[1],
     prediction_type |-> IF data.prediction_type = None
                         THEN SUCCESS_PREDICTION
                         ELSE data.prediction_type[1]]

-----------------------------------------------------------------------------
(* rest_framework.status *)

HTTP_200_OK == 200
HTTP_201_CREATED == 201
HTTP_400_BAD_REQUEST == 400
HTTP_404_NOT_FOUND == 404
HTTP_500_INTERNAL_SERVER_ERROR == 500
HTTP_503_SERVICE_UNAVAILABLE == 503

Response(data, status) == Some([status |-> status, data |-> data])

-----------------------------------------------------------------------------
(* views.py: MLModelViewSet.train, with the PlexeService.train_*_model it  *)
(* calls.  A train request runs in three steps, one per access to what     *)
(* other requests can see: Train (the record is created), TrainDataset     *)
(* (the record source is read and the dataset file written) and            *)
(* TrainPlexe (the trainer runs on the file).  What a handler does to its  *)
(* own record after a step (save, the except clause) belongs to the step.  *)
(* req[r] holds the locals of the r-th train request: pk and ml_model are  *)
(* the in-memory MLModel instance (pk 0: none was created), df,            *)
(* artifact_dir and dataset_path are the locals of train_*_model.  A       *)
(* handler that has answered keeps its response, the pk of its record and  *)
(* exc, the exception its except clause caught (None: none was raised).    *)
(* max_iterations is validated and handed to the trainer, whose outcome    *)
(* is not determined by it (PlexeReturns): it is not kept.                 *)

Answered(response, pk) ==
    [pc |-> "done", model_type |-> "", work_dir |-> None, pk |-> pk,
     ml_model |-> None, df |-> <<>>, artifact_dir |-> "",
     dataset_path |-> "", exc |-> None, response |-> response]

Received(validated_data, pk, ml_model) ==
    [pc |-> "created", model_type |-> validated_data.model_type,
     \* validated_data.get("work_dir") or None
     work_dir |-> IF validated_data.work_dir # ""
                  THEN Some(validated_data.work_dir) ELSE None,
     pk |-> pk, ml_model |-> Some(ml_model), df |-> <<>>,
     artifact_dir |-> "", dataset_path |-> "", exc |-> None,
     response |-> None]

\* The status a new record is created with (views.py line 90)
CreateStatus == TRAINING

\* Variant of Create: update_or_create keyed on the kind, the newest row
\* of the kind is overwritten when there is one.
Create_Upsert(table, row) ==
    LET kind(x) == IF "model_type" \in DOMAIN x
                   THEN x.model_type ELSE x.prediction_type
        same == {q \in 1..Len(table) : kind(table[q]) = kind(row)}
    IN  IF same = {} THEN Append(table, row)
        ELSE [table EXCEPT ![CHOOSE q \in same : \A o \in same : o <= q]
                              = row]

\* Model.objects.create(...): a new row; the rows there are stay
Create(table, row) == Append(table, row)

\* Variant of Save: the instance is written to every row of its kind (a
\* queryset update filtered on the kind in place of the instance's save).
Save_AllRows(table, pk, instance) ==
    [q \in DOMAIN table |->
        IF table[q].model_type = instance.model_type
        THEN instance ELSE table[q]]

\* Model.save(): every field of the in-memory instance is written to its row
Save(table, pk, instance) == [table EXCEPT ![pk] = instance]

\* Variant of SaveFields: update_fields is ignored, the whole instance is
\* written.
SaveFields_Whole(table, pk, instance, fields) ==
    [table EXCEPT ![pk] = instance]

\* Variant of SaveFields: the fields are written to every row of the
\* instance's kind (a queryset update in place of the instance's save).
SaveFields_AllRows(table, pk, instance, fields) ==
    [q \in DOMAIN table |->
        IF table[q].model_type = instance.model_type
        THEN [f \in DOMAIN table[q] |->
                IF f \in fields THEN instance[f] ELSE table[q][f]]
        ELSE table[q]]

\* Model.save(update_fields=fields): only these fields are written
SaveFields(table, pk, instance, fields) ==
    [table EXCEPT ![pk] =
        [f \in DOMAIN table[pk] |->
            IF f \in fields THEN instance[f] ELSE table[pk][f]]]

\* Variant of Unavailable: the availability check is missing.
Unavailable_Never == FALSE

\* "if not PLEXE_AVAILABLE" (views.py line 69)
Unavailable == ~PLEXE_AVAILABLE

\* Lines 69-92: availability check, validation, creation of the record.
Train(data) ==
    /\ Len(req) + served < MaxRequests
    /\ IF Unavailable
       THEN /\ req' = Append(req, Answered(
                        Response([error |-> "plexe is not installed."],
                                 HTTP_503_SERVICE_UNAVAILABLE), 0))
            /\ UNCHANGED ml_models
       ELSE IF ~TrainModelSerializer_is_valid(data)
       THEN /\ req' = Append(req, Answered(
                        Response([errors |->
                                    TrainModelSerializer_errors(data)],
                                 HTTP_400_BAD_REQUEST), 0))
            /\ UNCHANGED ml_models
       ELSE LET v == TrainModelSerializer_validated_data(data)
                ml_model == MLModel("plexe-" \o v.model_type, v.model_type,
                                    CreateStatus,
                                    "Automated plexe training for "
                                        \o v.model_type)
            IN  /\ ml_models' = Create(ml_models, ml_model)
                /\ req' = Append(req, Received(v, Len(ml_models) + 1,
                                               ml_model))
    /\ UNCHANGED <<PLEXE_AVAILABLE, procurements, predictions, files, dirs,
                   plexe_calls, served, last, hcall, hresult>>

\* Variant of ExceptStatus: the exception is answered as a client error.
ExceptStatus_BadRequest == HTTP_400_BAD_REQUEST

\* The status the except clause answers with (views.py line 129)
ExceptStatus == HTTP_500_INTERNAL_SERVER_ERROR

\* Variant of ExceptUpdateFields: the status is left out.
ExceptUpdateFields_MetadataOnly == {"training_metadata"}

\* Variant of ExceptUpdateFields: training_metadata is left out.
ExceptUpdateFields_StatusOnly == {"status"}

\* The fields the except clause saves (views.py line 126)
ExceptUpdateFields == {"status", "training_metadata"}

\* The except clause (views.py lines 122-130) for the exception exc, the
\* in-memory instance being ml_model.
Except(r, ml_model, exc) ==
    LET failed == [ml_model EXCEPT !.status = FAILED,
                                   !.training_metadata = [error |-> exc]]
    IN  /\ ml_models' = SaveFields(ml_models, req[r].pk, failed,
                                   ExceptUpdateFields)
        /\ req' = [req EXCEPT ![r] =
                     [Answered(Response([error |-> exc], ExceptStatus),
                               req[r].pk) EXCEPT !.exc = Some(exc)]]

\* The default record source of each trainer (plexe_service.py lines 86, 137)
TrainingStatuses(model_type) ==
    IF model_type = SUCCESS_PREDICTION
    THEN {"completed", "cancelled"} ELSE {"completed"}

InsufficientData(model_type) ==
    IF model_type = SUCCESS_PREDICTION
    THEN "Not enough training data. Need completed/cancelled procurements."
    ELSE "Not enough training data. Need completed procurements."

BuildDataset(model_type, procurements_qs) ==
    IF model_type = SUCCESS_PREDICTION
    THEN _build_success_dataset(procurements_qs)
    ELSE _build_demand_dataset(procurements_qs)

\* Variant of Empty: the check is never true.
Empty_Never(df) == FALSE

\* df.empty
Empty(df) == Len(df) = 0

\* tempfile.mkdtemp(prefix=...): a directory no other call returns
TempPrefix(model_type) ==
    IF model_type = SUCCESS_PREDICTION
    THEN "plexe_success_" ELSE "plexe_demand_"

Mkdtemp(model_type, r) == TempPrefix(model_type) \o ToString(r)

\* Variant of DatasetFile: the demand trainer writes under the name the
\* success trainer uses.
DatasetFile_CopyPaste(model_type) == "success_dataset.parquet"

DatasetFile(model_type) ==
    IF model_type = SUCCESS_PREDICTION
    THEN "success_dataset.parquet" ELSE "demand_dataset.parquet"

\* artifact_dir / name
PathJoin(dir, name) == dir \o "/" \o name

\* df.to_parquet(path): the file at path is created or overwritten.  The
\* writer is kept with the content to tell whose dataset a file holds.
WriteFile(fs, path, content) ==
    [q \in DOMAIN fs \cup {path} |-> IF q = path THEN content ELSE fs[q]]

\* Variant of ArtifactDir: the given work_dir is ignored.
ArtifactDir_TmpOnly(work_dir, tmp_dir) == tmp_dir

\* Path(work_dir or tmp_dir)
ArtifactDir(work_dir, tmp_dir) ==
    IF work_dir # None /\ work_dir[1] # "" THEN work_dir[1] ELSE tmp_dir

\* train_*_model up to the dataset file (plexe_service.py lines 80-101 and
\* 131-148): the record source is read and the dataset built; an empty
\* dataset raises; the temporary directory, the artifact directory and the
\* dataset file are made.  Reading the source may raise ("query"), and so
\* may writing the file ("to_parquet": OSError, no parquet engine).
TrainDataset(r) ==
    /\ req[r].pc = "created"
    /\ req[r].model_type \in {SUCCESS_PREDICTION, DEMAND_FORECAST}
    /\ \E failing \in {"none", "query", "to_parquet"} :
         LET df == BuildDataset(req[r].model_type,
                       Filter(procurements,
                              TrainingStatuses(req[r].model_type)))
             tmp_dir == Mkdtemp(req[r].model_type, r)
             artifact_dir == ArtifactDir(req[r].work_dir, tmp_dir)
             dataset_path == PathJoin(artifact_dir,
                                      DatasetFile(req[r].model_type))
         IN  IF ~PLEXE_AVAILABLE  \* _require_plexe()
             THEN /\ Except(r, req[r].ml_model[1], "plexe is not installed.")
                  /\ UNCHANGED <<files, dirs>>
             ELSE IF failing = "query"
             THEN /\ Except(r, req[r].ml_model[1], "cannot read procurements")
                  /\ UNCHANGED <<files, dirs>>
             ELSE IF Empty(df)
             THEN /\ Except(r, req[r].ml_model[1],
                            InsufficientData(req[r].model_type))
                  /\ UNCHANGED <<files, dirs>>
             ELSE /\ dirs' = dirs \cup {tmp_dir, artifact_dir}
                  /\ IF failing = "to_parquet"
                     THEN /\ Except(r, req[r].ml_model[1],
                                    "cannot write dataset")
                          /\ UNCHANGED files
                     ELSE /\ files' = WriteFile(files, dataset_path,
                                          [writer |-> r, df |-> df])
                          /\ req' = [req EXCEPT
                                       ![r].pc = "written",
                                       ![r].df = df,
                                       ![r].artifact_dir = artifact_dir,
                                       ![r].dataset_path = dataset_path]
                          /\ UNCHANGED ml_models
    /\ UNCHANGED <<PLEXE_AVAILABLE, procurements, predictions, plexe_calls,
                   served, last, hcall, hresult>>

\* The else branch of train (views.py lines 104-110): a kind the serializer
\* accepts and no trainer exists for.
TrainUnsupported(r) ==
    /\ req[r].pc = "created"
    /\ req[r].model_type \notin {SUCCESS_PREDICTION, DEMAND_FORECAST}
    /\ LET ml_model == [req[r].ml_model[1] EXCEPT !.status = FAILED]
       IN  /\ ml_models' = SaveFields(ml_models, req[r].pk, ml_model,
                                      {"status"})
           /\ req' = [req EXCEPT ![r] = Answered(
                        Response([error |-> "Unsupported model_type: "
                                            \o req[r].model_type],
                                 HTTP_400_BAD_REQUEST), req[r].pk)]
    /\ UNCHANGED <<PLEXE_AVAILABLE, procurements, predictions, files, dirs,
                   plexe_calls, served, last, hcall, hresult>>

\* What plexe.main.main may return: best_solution (None or an object with a
\* performance) and metrics (JSON-serializable or not).
PlexeReturns ==
    [best_solution : {None, Some([performance |-> 87])},
     metrics : {[serializable |-> TRUE], [serializable |-> FALSE]}]

\* json.dumps(training_metadata) in save(): TypeError before any write
JsonSerializable(metadata) ==
    "metrics" \notin DOMAIN metadata \/ metadata.metrics.serializable

\* The dict train_*_model returns (plexe_service.py lines 115-122, 161-168)
TrainResult(ret, artifact_dir, df) ==
    [performance |-> IF ret.best_solution # None
                     THEN ret.best_solution[1].performance ELSE 0,
     artifact_path |-> artifact_dir,
     metadata |-> [metrics |-> ret.metrics, dataset_rows |-> Len(df)]]

\* An invocation of plexe_main by the r-th request: its arguments, the
\* content of the file data_refs names when it is read, and what the call
\* returned (None: it raised).
PlexeCall(r, returned) ==
    [run |-> r, data_refs |-> <<req[r].dataset_path>>,
     work_dir |-> req[r].artifact_dir,
     dataset |-> files[req[r].dataset_path], returned |-> returned]

\* The call of plexe_main (plexe_service.py lines 104-113, 151-159), which
\* reads the file data_refs names and may raise, and what train does with
\* its result (views.py lines 112-120).
TrainPlexe(r) ==
    /\ req[r].pc = "written"
    /\ \/ /\ plexe_calls' = plexe_calls \cup {PlexeCall(r, None)}
          /\ Except(r, req[r].ml_model[1], "plexe failed")
       \/ \E ret \in PlexeReturns :
            /\ plexe_calls' = plexe_calls \cup {PlexeCall(r, Some(ret))}
            /\ LET result == TrainResult(ret, req[r].artifact_dir,
                                         req[r].df)
                   ml_model == [req[r].ml_model[1] EXCEPT
                                   !.performance = Some(result.performance),
                                   !.artifact_path = result.artifact_path,
                                   !.training_metadata = result.metadata,
                                   !.status = READY]
               IN  IF JsonSerializable(ml_model.training_metadata)
                   THEN /\ ml_models' = Save(ml_models, req[r].pk, ml_model)
                        /\ req' = [req EXCEPT ![r] = Answered(
                                     Response([id |-> req[r].pk,
                                               model |-> ml_model],
                                              HTTP_201_CREATED), req[r].pk)]
                   ELSE Except(r, ml_model,
                               "metrics is not JSON serializable")
    /\ UNCHANGED <<PLEXE_AVAILABLE, procurements, predictions, files, dirs,
                   served, last, hcall, hresult>>

-----------------------------------------------------------------------------
(* views.py: ProcurementPredictionViewSet and the read-only endpoints *)

\* pks of a table in the Meta ordering "-created_at": newest first
NewestFirst(pks) ==
    LET n == Cardinality(pks)
        F[i \in 0..n] ==
            IF i = 0 THEN <<>>
            ELSE LET rest == pks \ {F[i - 1][j] : j \in 1..(i - 1)}
                 IN  Append(F[i - 1],
                            CHOOSE x \in rest : \A y \in rest : y <= x)
    IN  F[n]

\* Lines 174-197: validation, lookup of the procurement, heuristic, create.
Predict(data) ==
    /\ Len(req) + served < MaxRequests
    /\ served' = served + 1
    /\ IF ~PredictSerializer_is_valid(data)
       THEN /\ last' = Some([op |-> "predict", body |-> data,
                             status |-> HTTP_400_BAD_REQUEST,
                             data |-> PredictSerializer_errors(data)])
            /\ UNCHANGED predictions
       ELSE LET v == PredictSerializer_validated_data(data)
            IN  IF v.procurement_id \notin 1..Len(procurements)
                THEN \* get_object_or_404
                     /\ last' = Some([op |-> "predict", body |-> data,
                                      status |-> HTTP_404_NOT_FOUND,
                                      data |-> {}])
                     /\ UNCHANGED predictions
                ELSE LET features ==
                             extract_features(procurements[v.procurement_id])
                         hp == _heuristic_predict(v.prediction_type, features)
                         prediction == ProcurementPrediction(
                             v.procurement_id, v.prediction_type,
                             hp[1], hp[2], features)
                     IN  /\ predictions' = Create(predictions, prediction)
                         /\ last' = Some([op |-> "predict", body |-> data,
                                          status |-> HTTP_201_CREATED,
                                          data |-> <<Len(predictions) + 1,
                                                     prediction>>])
    /\ UNCHANGED <<PLEXE_AVAILABLE, procurements, ml_models, files, dirs,
                   plexe_calls, req, hcall, hresult>>

\* GET /api/ml/predictions/[?procurement=<id>] (get_queryset, lines 146-151)
ListPredictions(procurement_id) ==
    /\ Len(req) + served < MaxRequests
    /\ served' = served + 1
    /\ LET qs == IF procurement_id # None
                 THEN {pk \in 1..Len(predictions) :
                         predictions[pk].procurement = procurement_id[1]}
                 ELSE 1..Len(predictions)
       IN  last' = Some([op |-> "list_predictions", body |-> procurement_id,
                         status |-> HTTP_200_OK, data |-> NewestFirst(qs)])
    /\ UNCHANGED <<PLEXE_AVAILABLE, procurements, ml_models, predictions,
                   files, dirs, plexe_calls, req, hcall, hresult>>

\* GET /api/ml/models/ (queryset = MLModel.objects.all(), line 39)
ListModels ==
    /\ Len(req) + served < MaxRequests
    /\ served' = served + 1
    /\ last' = Some([op |-> "list_models", body |-> None,
                     status |-> HTTP_200_OK,
                     data |-> NewestFirst(1..Len(ml_models))])
    /\ UNCHANGED <<PLEXE_AVAILABLE, procurements, ml_models, predictions,
                   files, dirs, plexe_calls, req, hcall, hresult>>

\* The procurement collaborator stores a new procurement.
CreateProcurement ==
    /\ Len(procurements) < MaxProcurements
    /\ procurements' = Append(procurements,
           ProcurementFixtures[(Len(procurements) % Len(ProcurementFixtures))
                               + 1])
    /\ UNCHANGED <<PLEXE_AVAILABLE, ml_models, predictions, files, dirs,
                   plexe_calls, req, served, last, hcall, hresult>>

-----------------------------------------------------------------------------
(* The service *)

InitStore ==
    /\ PLEXE_AVAILABLE \in BOOLEAN
    /\ procurements = <<>>
    /\ ml_models = <<>>
    /\ predictions = <<>>
    /\ files = EmptyDict
    /\ dirs = {}
    /\ plexe_calls = {}
    /\ req = <<>>
    /\ served = 0
    /\ last = None

Init == InitStore /\ hcall = None /\ hresult = None

Next ==
    \/ \E data \in TrainBodies : Train(data)
    \/ \E r \in 1..Len(req) : TrainDataset(r)
    \/ \E r \in 1..Len(req) : TrainUnsupported(r)
    \/ \E r \in 1..Len(req) : TrainPlexe(r)
    \/ \E data \in PredictBodies : Predict(data)
    \/ \E procurement_id \in {None} \cup {Some(i) : i \in 1..MaxProcurements} :
         ListPredictions(procurement_id)
    \/ ListModels
    \/ CreateProcurement

Spec == Init /\ [][Next]_vars

-----------------------------------------------------------------------------
(* _heuristic_predict called on its own, as the unit tests call it *)

HeuristicKinds == ModelTypeChoices \cup {"nonexistent_type"}

FeatureKeys ==
    {"progress", "participant_count", "days_active", "target_amount",
     "price_per_unit"}

\* Feature mappings with any subset of the keys the predictor reads
HeuristicFeatures ==
    LET full == [progress : {0, 30, 50, 150},
                 participant_count : {0, 6, 10, 25},
                 days_active : {0, 15, 30, 45},
                 target_amount : {0, 4, 5, 9000, 10000},
                 price_per_unit : {0, 3, 500}]
    IN  {[k \in K |-> f[k]] : f \in full, K \in SUBSET FeatureKeys}

HeuristicInit ==
    /\ InitStore
    /\ hcall \in {Some([prediction_type |-> t, features |-> f]) :
                    t \in HeuristicKinds, f \in HeuristicFeatures}
    /\ hresult = None

HeuristicCall ==
    /\ hcall # None
    /\ hresult = None
    /\ hresult' = Some(_heuristic_predict(hcall[1].prediction_type,
                                          hcall[1].features))
    /\ UNCHANGED <<PLEXE_AVAILABLE, procurements, ml_models, predictions,
                   files, dirs, plexe_calls, req, served, last, hcall>>

HeuristicNext == HeuristicCall

HeuristicSpec == HeuristicInit /\ [][HeuristicNext]_vars

-----------------------------------------------------------------------------
(* The static helpers of PlexeService called on their own, as the unit     *)
(* tests call them: extract_features on a record, _build_success_dataset   *)
(* on a collection of records.                                             *)

MaxRows == 2   \* records in a collection given to the dataset builder

\* Procurement records: every combination of a missing / empty / present
\* category, city and price with deadlines before, at and after creation.
ProcurementRecords ==
    [status : {"completed", "cancelled", "active"},
     category : {None, Some("Electronics")},
     city : {None, Some(""), Some("Moscow")},
     target_amount : {10000}, current_amount : {3000},
     price_per_unit : {None, Some(0), Some(500)},
     participant_count : {6},
     created_at : {48},
     deadline : {0, 47, 48, 71, 72, 768},
     progress : {30}]

\* The records the collections are made of
DatasetRecords ==
    {p \in ProcurementRecords :
        /\ p.category = None
        /\ p.city = Some("Moscow")
        /\ p.price_per_unit = Some(500)
        /\ p.deadline \in {47, 71, 768}}

ServiceInit ==
    /\ InitStore
    /\ hcall \in
         {Some([fn |-> "extract_features", procurement |-> p]) :
            p \in ProcurementRecords}
         \cup
         {Some([fn |-> "_build_success_dataset", procurements_qs |-> qs]) :
            qs \in UNION {[1..n -> DatasetRecords] : n \in 0..MaxRows}}
    /\ hresult = None

ExtractFeaturesCall ==
    /\ hcall # None
    /\ hresult = None
    /\ hcall[1].fn = "extract_features"
    /\ hresult' = Some(extract_features(hcall[1].procurement))
    /\ UNCHANGED <<PLEXE_AVAILABLE, procurements, ml_models, predictions,
                   files, dirs, plexe_calls, req, served, last, hcall>>

BuildSuccessDatasetCall ==
    /\ hcall # None
    /\ hresult = None
    /\ hcall[1].fn = "_build_success_dataset"
    /\ hresult' = Some(_build_success_dataset(hcall[1].procurements_qs))
    /\ UNCHANGED <<PLEXE_AVAILABLE, procurements, ml_models, predictions,
                   files, dirs, plexe_calls, req, served, last, hcall>>

ServiceNext == ExtractFeaturesCall \/ BuildSuccessDatasetCall

ServiceSpec == ServiceInit /\ [][ServiceNext]_vars

-----------------------------------------------------------------------------
(* Properties *)

Requests == 1..Len(req)
Status(r) == req[r].response[1].status
Data(r) == req[r].response[1].data
Rows == 1..Len(ml_models)

\* C1: a trained-model record is created with status training; its status
\* changes only from training to ready or from training to failed, and no
\* record is ever removed.
C1_StatusLifecycle ==
    [][/\ Len(ml_models') >= Len(ml_models)
       /\ \A pk \in 1..Len(ml_models') :
            IF pk > Len(ml_models)
            THEN ml_models'[pk].status = TRAINING
            ELSE ml_models'[pk].status # ml_models[pk].status
                 => /\ ml_models[pk].status = TRAINING
                    /\ ml_models'[pk].status \in {READY, FAILED}]_vars

\* Two runs of the same kind, one ended ready and one ended failed.
C1_Witness ==
    \E a, b \in Rows :
        /\ ml_models[a].status = READY
        /\ ml_models[b].status = FAILED
        /\ ml_models[a].model_type = ml_models[b].model_type

\* C2: when an exception is raised in the dataset build, the dataset
\* persistence or the trainer call, the handler still answers: with 500 and
\* the error message, its record being persisted as failed with the error
\* string in training_metadata.
C2_ExceptionRecorded ==
    \A r \in Requests :
        req[r].exc # None
        => /\ req[r].pc = "done"
           /\ Status(r) = HTTP_500_INTERNAL_SERVER_ERROR
           /\ Data(r) = [error |-> req[r].exc[1]]
           /\ req[r].pk \in Rows
           /\ ml_models[req[r].pk].status = FAILED
           /\ ml_models[req[r].pk].training_metadata
                = [error |-> req[r].exc[1]]

\* One run failed writing the dataset and another in the trainer.
C2_Witness ==
    \E a, b \in Requests :
        /\ req[a].exc = Some("cannot write dataset")
        /\ req[b].exc = Some("plexe failed")

SourceEmpty(r) ==
    Filter(procurements, TrainingStatuses(req[r].model_type)) = <<>>

\* The step in which the r-th request reads its record source
DatasetStep(r) ==
    /\ req[r].pc = "created"
    /\ req'[r].pc # "created"
    /\ req[r].model_type \in {SUCCESS_PREDICTION, DEMAND_FORECAST}

\* C3: a training run of either kind whose record source has no records
\* ends in that step with the "not enough training data" error (unless
\* reading the source itself raised), writes no file, makes no directory
\* and does not invoke the trainer; the trainer is never given an empty
\* dataset.
C3_EmptySourceFailsFast ==
    /\ [](\A c \in plexe_calls : Len(c.dataset.df) > 0)
    /\ [][\A r \in Requests :
            DatasetStep(r) /\ SourceEmpty(r)
            => /\ files' = files
               /\ dirs' = dirs
               /\ plexe_calls' = plexe_calls
               /\ req'[r].pc = "done"
               /\ req'[r].exc \in
                    {Some(InsufficientData(req[r].model_type)),
                     Some("cannot read procurements")}]_vars

\* Both kinds have failed for lack of data.
C3_Witness ==
    \E a, b \in Requests :
        /\ req[a].exc = Some(InsufficientData(SUCCESS_PREDICTION))
        /\ req[b].exc = Some(InsufficientData(DEMAND_FORECAST))
        /\ plexe_calls = {}
        /\ DOMAIN files = {}

\* The step in which the r-th request finds its dataset has zero rows
EmptyDatasetStep(r) ==
    /\ DatasetStep(r)
    /\ SourceEmpty(r)
    /\ req'[r].exc # Some("cannot read procurements")

\* C4 as claimed: a run whose dataset has zero rows is answered with a
\* client error (4xx), not with 500.
C4_Claimed ==
    [][\A r \in Requests :
         EmptyDatasetStep(r)
         => /\ req'[r].pc = "done"
            /\ req'[r].response[1].status >= 400
            /\ req'[r].response[1].status < 500]_vars

\* C4 amended: a run whose dataset has zero rows is answered 500 with the
\* "not enough training data" message, like every other exception of the
\* run, and its record is persisted as failed with that message.
C4_EmptyDatasetIs500 ==
    [][\A r \in Requests :
         EmptyDatasetStep(r)
         => /\ req'[r].pc = "done"
            /\ req'[r].response[1].status = HTTP_500_INTERNAL_SERVER_ERROR
            /\ req'[r].response[1].data
                 = [error |-> InsufficientData(req[r].model_type)]
            /\ ml_models'[req[r].pk].status = FAILED
            /\ ml_models'[req[r].pk].training_metadata
                 = req'[r].response[1].data]_vars

\* A demand run found no completed procurement although the table has one
\* (cancelled) row, and was answered 500.
C4_Witness ==
    \E r \in Requests :
        /\ req[r].exc = Some(InsufficientData(DEMAND_FORECAST))
        /\ Status(r) = HTTP_500_INTERNAL_SERVER_ERROR
        /\ Len(procurements) = 1

\* C5: while the trainer is unavailable every train request is answered 503
\* and nothing else happens: no record, no directory, no file, no trainer
\* call.
C5_Unavailable503 ==
    ~PLEXE_AVAILABLE
    => /\ ml_models = <<>>
       /\ DOMAIN files = {}
       /\ dirs = {}
       /\ plexe_calls = {}
       /\ \A r \in Requests :
            /\ req[r].pc = "done"
            /\ Status(r) = HTTP_503_SERVICE_UNAVAILABLE
            /\ req[r].pk = 0

\* Every request of the behaviour was a train request made while the
\* trainer was unavailable.
C5_Witness ==
    /\ ~PLEXE_AVAILABLE
    /\ Len(req) = MaxRequests
    /\ Len(procurements) > 0

\* C6 as claimed: a train request answered 400 because of its body has
\* created no trained-model record.
C6_Claimed ==
    \A r \in Requests :
        req[r].pc = "done" /\ Status(r) = HTTP_400_BAD_REQUEST
        => req[r].pk = 0

LastPredict(l) == l # None /\ l[1].op = "predict"

\* C7: a predict request creates a prediction record exactly when its body
\* is valid and the procurement exists: then one record is appended
\* (procurement, requested kind, heuristic value and confidence, extracted
\* features, no trained model) and the answer is 201; a valid body naming
\* no procurement is answered 404; no other operation creates a record.
C7_PredictCreates ==
    [][IF served' = served + 1 /\ LastPredict(last')
       THEN LET body == last'[1].body
                valid == /\ body.procurement_id # None
                         /\ \/ body.prediction_type = None
                            \/ body.prediction_type[1] \in ModelTypeChoices
                id == body.procurement_id[1]
                kind == IF body.prediction_type = None
                        THEN SUCCESS_PREDICTION
                        ELSE body.prediction_type[1]
            IN  IF valid /\ id \in 1..Len(procurements)
                THEN LET new == predictions'[Len(predictions')]
                         features == extract_features(procurements[id])
                     IN  /\ last'[1].status = HTTP_201_CREATED
                         /\ Len(predictions') = Len(predictions) + 1
                         /\ SubSeq(predictions', 1, Len(predictions))
                              = predictions
                         /\ new.procurement = id
                         /\ new.prediction_type = kind
                         /\ new.ml_model = None
                         /\ new.input_features = features
                         /\ <<new.predicted_value, new.confidence>>
                              = _heuristic_predict(kind, features)
                ELSE /\ predictions' = predictions
                     /\ valid => last'[1].status = HTTP_404_NOT_FOUND
                     /\ ~valid => last'[1].status = HTTP_400_BAD_REQUEST
       ELSE predictions' = predictions]_vars

\* A prediction was created, and a later request for a procurement that
\* does not exist was answered 404.
C7_Witness ==
    /\ Len(predictions) = 1
    /\ LastPredict(last)
    /\ last[1].status = HTTP_404_NOT_FOUND

\* C8: no operation changes or removes a prediction record.
C8_PredictionsImmutable ==
    [][/\ Len(predictions') >= Len(predictions)
       /\ \A pk \in 1..Len(predictions) :
            predictions'[pk] = predictions[pk]]_vars

\* Two predictions of the same kind for two procurements.
C8_Witness ==
    /\ Len(predictions) = 2
    /\ predictions[1].procurement # predictions[2].procurement
    /\ predictions[1].prediction_type = predictions[2].prediction_type
    /\ predictions[1].predicted_value # predictions[2].predicted_value

Called(kind) ==
    /\ hresult # None
    /\ hcall[1].prediction_type = kind

NonNegative(features) == \A k \in DOMAIN features : features[k] >= 0

\* C9: for non-negative features the success heuristic returns a value in
\* [0, 1] and the confidence 0.5.
C9_SuccessRange ==
    Called(SUCCESS_PREDICTION) /\ NonNegative(hcall[1].features)
    => LET value == hresult[1][1]
           confidence == hresult[1][2]
       IN  /\ value.scale > 0
           /\ 0 <= value.n
           /\ value.n <= value.scale
           /\ 2 * confidence.n = confidence.scale

\* A progress above 100 whose score is clamped to 1.
C9_Witness ==
    /\ Called(SUCCESS_PREDICTION)
    /\ "progress" \in DOMAIN hcall[1].features
    /\ hcall[1].features.progress > 100
    /\ "days_active" \notin DOMAIN hcall[1].features
    /\ hresult[1][1].n = hresult[1][1].scale

\* C10: for non-negative features the demand heuristic returns
\* max(1, floor((target_amount / p) / 5)), p the price_per_unit when it is
\* present and not zero and 1 otherwise, target_amount 1000 when missing:
\* an integer n >= 1 that is 1 when target_amount < 5 p and else the
\* largest n with 5 p n <= target_amount; the confidence is 0.4.
C10_DemandForecast ==
    Called(DEMAND_FORECAST) /\ NonNegative(hcall[1].features)
    => LET f == hcall[1].features
           target == IF "target_amount" \in DOMAIN f
                     THEN f.target_amount ELSE 1000
           p == IF "price_per_unit" \in DOMAIN f /\ f.price_per_unit # 0
                THEN f.price_per_unit ELSE 1
           value == hresult[1][1]
           confidence == hresult[1][2]
       IN  /\ value.scale = 1
           /\ value.n >= 1
           /\ IF target < 5 * p
              THEN value.n = 1
              ELSE /\ 5 * p * value.n <= target
                   /\ target < 5 * p * (value.n + 1)
           /\ 10 * confidence.n = 4 * confidence.scale

\* A price of zero with a target too small for one participant.
C10_Witness ==
    /\ Called(DEMAND_FORECAST)
    /\ "price_per_unit" \in DOMAIN hcall[1].features
    /\ hcall[1].features.price_per_unit = 0
    /\ "target_amount" \in DOMAIN hcall[1].features
    /\ hcall[1].features.target_amount = 4
    /\ hresult[1][1] = Dec(1, 1)

\* C11 as claimed: for a kind that is neither success_prediction nor
\* demand_forecast the heuristic returns target_amount / max(1,
\* participant_count) rounded to 2 decimals (target_amount 1000 and
\* participant_count 1 when missing) with the confidence 0.35, and the value
\* is positive.
C11_Claimed ==
    /\ hresult # None
    /\ hcall[1].prediction_type \notin {SUCCESS_PREDICTION, DEMAND_FORECAST}
    /\ NonNegative(hcall[1].features)
    => LET f == hcall[1].features
           target == IF "target_amount" \in DOMAIN f
                     THEN f.target_amount ELSE 1000
           count == IF "participant_count" \in DOMAIN f
                    THEN f.participant_count ELSE 1
           participants == IF count >= 1 THEN count ELSE 1
           value == hresult[1][1]
           confidence == hresult[1][2]
       IN  /\ value.scale = 100
           /\ 2 * (value.n * participants - 100 * target) <= participants
           /\ 2 * (100 * target - value.n * participants) <= participants
           /\ 100 * confidence.n = 35 * confidence.scale
           /\ value.n > 0

\* The call of a static helper of PlexeService has returned
Returned(fn) ==
    /\ hresult # None
    /\ hcall[1].fn = fn

NumericFeatures ==
    {"target_amount", "participant_count", "days_active", "price_per_unit",
     "current_amount", "progress"}

\* C12: extract_features returns a mapping with exactly the keys category,
\* city, target_amount, participant_count, days_active, price_per_unit,
\* current_amount and progress; category is "unknown" for a record without
\* category, city is "unknown" for a missing or empty city, price_per_unit
\* is 0 for a missing price, and every numeric field is a number.
C12_ExtractFeatures ==
    Returned("extract_features")
    => LET p == hcall[1].procurement
           f == hresult[1]
       IN  /\ DOMAIN f = {"category", "city"} \cup NumericFeatures
           /\ p.category = None => f.category = "unknown"
           /\ p.city \in {None, Some("")} => f.city = "unknown"
           /\ p.price_per_unit = None => f.price_per_unit = 0
           /\ \A k \in NumericFeatures : f[k] \in Int

\* A record with an empty city and neither category nor price.
C12_Witness ==
    /\ Returned("extract_features")
    /\ hcall[1].procurement.category = None
    /\ hcall[1].procurement.city = Some("")
    /\ hcall[1].procurement.price_per_unit = None
    /\ hresult[1].city = "unknown"

\* d is max(0, whole days from the creation of p to its deadline)
ClampedDays(p, d) ==
    LET hours == p.deadline - p.created_at
    IN  /\ d >= 0
        /\ p.deadline < p.created_at => d = 0
        /\ p.deadline >= p.created_at
           => /\ HoursPerDay * d <= hours
              /\ hours < HoursPerDay * (d + 1)

\* C13: the days_active of extract_features and of every row of the
\* success dataset is max(0, whole days between creation and deadline):
\* never negative and 0 when the deadline precedes the creation.
C13_DaysActiveClamped ==
    /\ Returned("extract_features")
       => ClampedDays(hcall[1].procurement, hresult[1].days_active)
    /\ Returned("_build_success_dataset")
       => \A i \in 1..Len(hresult[1]) :
            i <= Len(hcall[1].procurements_qs)
            => ClampedDays(hcall[1].procurements_qs[i],
                           hresult[1][i].days_active)

\* Features of a record whose deadline is an hour before its creation.
C13_Witness ==
    /\ Returned("extract_features")
    /\ hcall[1].procurement.deadline < hcall[1].procurement.created_at
    /\ hresult[1].days_active = 0

SuccessValueIs(features, days, value) ==
    LET progress == IF "progress" \in DOMAIN features
                    THEN features.progress ELSE 0
        count == IF "participant_count" \in DOMAIN features
                 THEN features.participant_count ELSE 0
        s == 180 * progress
             + 900 * (IF count <= 10 THEN count ELSE 10)
             + 100 * (IF days <= 30 THEN days ELSE 30)
        capped == IF s <= 30000 THEN s ELSE 30000
    IN  /\ value.scale = 10000
        /\ 3 * value.n - capped \in -1..1

\* C15 as claimed: the days_active term uses days_active as given, 1 when
\* the key is missing, so that a present days_active of 0 contributes 0.
C15_Claimed ==
    Called(SUCCESS_PREDICTION) /\ NonNegative(hcall[1].features)
    => LET f == hcall[1].features
           days == IF "days_active" \in DOMAIN f THEN f.days_active ELSE 1
       IN  SuccessValueIs(f, days, hresult[1][1])

\* C15 amended: the days_active term uses max(1, days_active), 1 when the
\* key is missing, so that a present days_active of 0 counts as 1 day;
\* progress 30, participant_count 6, days_active 15 gives 0.41.
C15_SuccessScore ==
    Called(SUCCESS_PREDICTION) /\ NonNegative(hcall[1].features)
    => LET f == hcall[1].features
           given == IF "days_active" \in DOMAIN f THEN f.days_active ELSE 1
           days == IF given >= 1 THEN given ELSE 1
       IN  /\ SuccessValueIs(f, days, hresult[1][1])
           /\ f = [progress |-> 30, participant_count |-> 6,
                   days_active |-> 15]
              => hresult[1][1] = Dec(4100, 10000)

\* A days_active of 0 with no progress and no participant: 0.0033.
C15_Witness ==
    /\ Called(SUCCESS_PREDICTION)
    /\ hcall[1].features = [progress |-> 0, participant_count |-> 0,
                            days_active |-> 0]
    /\ hresult[1][1] = Dec(33, 10000)

\* The invocations of the trainer made in this step
NewCalls == plexe_calls' \ plexe_calls

\* C16: when a run invokes the trainer, the artifact directory exists and
\* the dataset file (success_dataset / demand_dataset inside the artifact
\* directory) is there, written by the run in an earlier step; the trainer
\* is given that file as its only data reference and that directory as its
\* working directory.  No file or directory is ever removed.
C16_DatasetBeforeTrainer ==
    [][/\ DOMAIN files \subseteq DOMAIN files'
       /\ dirs \subseteq dirs'
       /\ \A r \in Requests :
            DatasetStep(r) /\ req'[r].pc = "written"
            => /\ req'[r].artifact_dir \in dirs'
               /\ req'[r].dataset_path \in DOMAIN files'
               /\ files'[req'[r].dataset_path]
                    = [writer |-> r, df |-> req'[r].df]
       /\ \A c \in NewCalls :
            LET r == c.run
                name == IF req[r].model_type = SUCCESS_PREDICTION
                        THEN "success_dataset.parquet"
                        ELSE "demand_dataset.parquet"
            IN  /\ req[r].pc = "written"
                /\ c.work_dir = req[r].artifact_dir
                /\ c.work_dir \in dirs
                /\ c.data_refs = <<c.work_dir \o "/" \o name>>
                /\ c.data_refs[1] = req[r].dataset_path
                /\ c.data_refs[1] \in DOMAIN files]_vars

\* The trainer has run once for each kind, once in a given work_dir and
\* once in a temporary directory.
C16_Witness ==
    \E a, b \in plexe_calls :
        /\ a.work_dir = "workdir"
        /\ a.data_refs = <<"workdir/demand_dataset.parquet">>
        /\ b.work_dir # "workdir"
        /\ b.dataset.df # a.dataset.df

\* C17: every train request that passes validation creates one new record
\* of its own, whatever records of its kind exist, and no two requests
\* share a record; a record changes only in a step of the request that
\* created it, and only while that request is not yet answered.
C17_RecordOwnership ==
    /\ [](\A a, b \in Requests :
            a # b /\ req[a].pk # 0 => req[a].pk # req[b].pk)
    /\ [][/\ \A pk \in Rows :
               /\ pk <= Len(ml_models')
               /\ ml_models'[pk] # ml_models[pk]
                  => \E r \in Requests :
                       /\ req[r].pk = pk
                       /\ req[r].pc # "done"
                       /\ req'[r] # req[r]
          /\ Len(req') > Len(req)
             => LET new == req'[Len(req')]
                IN  IF new.pc = "done"
                    THEN new.pk = 0 /\ ml_models' = ml_models
                    ELSE /\ new.pk = Len(ml_models) + 1
                         /\ Len(ml_models') = Len(ml_models) + 1
                         /\ ml_models'[new.pk].model_type = new.model_type]_vars

\* Two runs of the same kind: one answered 201, the other still to call
\* the trainer, each with its own record.
C17_Witness ==
    \E a, b \in Requests :
        /\ req[a].pc = "done"
        /\ Status(a) = HTTP_201_CREATED
        /\ req[b].pc = "written"
        /\ ml_models[req[a].pk].model_type = ml_models[req[b].pk].model_type
        /\ ml_models[req[a].pk].status = READY
        /\ ml_models[req[b].pk].status = TRAINING

\* The number of procurements a trainer of the kind reads
SourceRows(model_type) ==
    Cardinality({i \in 1..Len(procurements) :
        \/ procurements[i].status = "completed"
        \/ /\ procurements[i].status = "cancelled"
           /\ model_type = SUCCESS_PREDICTION})

\* The step in which the trainer returns to the r-th request and nothing
\* is raised afterwards
CompletedStep(r) ==
    /\ req[r].pc = "written"
    /\ req'[r].pc = "done"
    /\ req'[r].exc = None

\* C18: a run that completes without exception is answered 201 and its
\* record is persisted as ready with the performance of the trainer's best
\* solution (0 when it returned none), with the artifact directory of the
\* run as artifact_path (the work_dir of the request when it gave one, else
\* a temporary directory made for the run) and with dataset_rows the
\* number of records the run read from its record source, at least 1.
C18_ReadyRecord ==
    [][\A r \in Requests :
         /\ DatasetStep(r) /\ req'[r].pc = "written"
            => /\ Len(req'[r].df) = SourceRows(req[r].model_type)
               /\ Len(req'[r].df) >= 1
               /\ IF req[r].work_dir # None
                  THEN req'[r].artifact_dir = req[r].work_dir[1]
                  ELSE /\ req'[r].artifact_dir \notin dirs
                       /\ req'[r].artifact_dir \in dirs'
         /\ CompletedStep(r)
            => \E c \in NewCalls :
                 LET row == ml_models'[req[r].pk]
                     best == c.returned[1].best_solution
                 IN  /\ c.run = r
                     /\ req'[r].response[1].status = HTTP_201_CREATED
                     /\ req'[r].response[1].data.model = row
                     /\ row.status = READY
                     /\ row.performance
                          = Some(IF best = None THEN 0 ELSE best[1].performance)
                     /\ row.artifact_path = req[r].artifact_dir
                     /\ row.training_metadata.dataset_rows = Len(req[r].df)
                     /\ row.training_metadata.metrics = c.returned[1].metrics
      ]_vars

\* A run in a given work_dir whose trainer returned no best solution, and
\* a run in a temporary directory, both ready.
C18_Witness ==
    \E a, b \in Rows :
        /\ ml_models[a].status = READY
        /\ ml_models[a].artifact_path = "workdir"
        /\ ml_models[a].performance = Some(0)
        /\ ml_models[b].status = READY
        /\ ml_models[b].artifact_path # "workdir"
        /\ ml_models[b].training_metadata.dataset_rows = 1

\* C19: the record of an answered train request is not in status training:
\* it is ready when the answer is 201 and failed when the answer is 400 or
\* 500; when every train request is answered no record is in training.
C19_NoTrainingAfterAnswer ==
    /\ \A r \in Requests :
         req[r].pc = "done" /\ req[r].pk # 0
         => LET row == ml_models[req[r].pk]
            IN  \/ row.status = READY /\ Status(r) = HTTP_201_CREATED
                \/ /\ row.status = FAILED
                   /\ Status(r) \in {HTTP_400_BAD_REQUEST,
                                     HTTP_500_INTERNAL_SERVER_ERROR}
    /\ (\A r \in Requests : req[r].pc = "done")
       => \A pk \in Rows : ml_models[pk].status # TRAINING

\* Every request was a train request and is answered: one with 201, one
\* with 500.
C19_Witness ==
    /\ Len(req) = MaxRequests
    /\ \A r \in Requests : req[r].pc = "done"
    /\ \E a, b \in Requests :
         /\ Status(a) = HTTP_201_CREATED
         /\ Status(b) = HTTP_500_INTERNAL_SERVER_ERROR
         /\ ml_models[req[b].pk].status = FAILED

\* C20: a record in status failed or training has no performance and an
\* empty artifact_path; a record in status ready has an artifact_path.
C20_FailedHasNoResult ==
    \A pk \in Rows :
        /\ ml_models[pk].status \in {FAILED, TRAINING}
           => /\ ml_models[pk].performance = None
              /\ ml_models[pk].artifact_path = ""
        /\ ml_models[pk].status = READY
           => ml_models[pk].artifact_path # ""

\* A run failed in save() after the trainer had returned a result.
C20_Witness ==
    \E pk \in Rows :
        /\ ml_models[pk].status = FAILED
        /\ ml_models[pk].training_metadata
             = [error |-> "metrics is not JSON serializable"]
        /\ \E c \in plexe_calls :
             /\ c.returned # None
             /\ c.returned[1].best_solution # None
             /\ req[c.run].pk = pk

\* C21 as claimed: the dataset file a run hands to the trainer holds, when
\* the trainer reads it, the dataset that run built: no other run has
\* written the file since the run wrote it, runs of the same kind given
\* the same work_dir included.
C21_Claimed ==
    [][\A c \in NewCalls :
         c.dataset = [writer |-> c.run, df |-> req[c.run].df]]_vars

====
